---- MODULE Spec2Model ----
(***************************************************************************)
(* Offline-resilient sensor dashboard: the React poller (App, fetchData,   *)
(* readCachedData, normalizeReadings) and the service worker (install,     *)
(* activate, the /api/data/ route) over the browser's CacheStorage and     *)
(* localStorage.                                                           *)
(*                                                                         *)
(* Every await of the source is a step boundary: a step of a poll cycle    *)
(* or of a service-worker handler runs from one await to the next, and     *)
(* steps of different cycles and handlers interleave freely.               *)
(***************************************************************************)
EXTENDS Integers, Sequences, FiniteSets, TLC

\* ---------------------------------------------------------------- bounds
\* Poll cycles that may be in flight at once (a tick starts a cycle while
\* earlier ones still await the network).
MaxCycles == 2
\* Timers setInterval may hand out in one run.
MaxTimers == 2

Cycles == 1..MaxCycles
MaxReadings == 3

\* ------------------------------------------------------------ data model
\* A JSON scalar is a pair <<tag, value>>.
\*   timestamps: <<"iso", t>> an ISO-8601 string, <<"ms", t>> epoch
\*               milliseconds, <<"bad", 0>> a string Date cannot parse
\*   numbers:    <<"num", n>> a number, <<"str", n>> a numeric string,
\*               <<"text", 0>> a non-numeric string, <<"nan", 0>> NaN
\*   <<"null", 0>> is null / a missing field
NullV == <<"null", 0>>
NaNV == <<"nan", 0>>

Reading(ts, t, h) == [timestamp |-> ts, temperature |-> t, humidity |-> h]

\* A response or storage body: a JSON array of reading objects, a JSON
\* array holding a null element, a JSON object, or text that is not JSON.
ArrayBody(items) == [kind |-> "array", items |-> items]
ObjectBody == [kind |-> "object", items |-> <<>>]
MalformedBody == [kind |-> "malformed", items |-> <<>>]
NullItemBody == [kind |-> "nullitem", items |-> <<>>]
NoBody == [kind |-> "none", items |-> <<>>]

\* What a request may end in instead of an ok response: a network error
\* (fetch rejects) or a response whose status is not ok.
NetErr == [kind |-> "neterr", items |-> <<>>]
NonOk == [kind |-> "nonok", items |-> <<>>]
\* if (resp && resp.ok): without the status test every response that
\* arrives would count.
IsOk_AnyResponse(out) == out.kind # "neterr"

IsOk(out) == out.kind \notin {"neterr", "nonok"}

RA == Reading(<<"iso", 1>>, <<"num", 21>>, <<"num", 44>>)
RB == Reading(<<"ms", 2>>, <<"str", 22>>, <<"num", 45>>)
RNullTemp == Reading(<<"iso", 3>>, NullV, <<"num", 50>>)
RBadTs == Reading(<<"bad", 0>>, <<"num", 20>>, <<"num", 40>>)
RText == Reading(<<"iso", 4>>, <<"text", 0>>, <<"num", 41>>)
REpoch == Reading(<<"ms", 0>>, <<"num", 19>>, <<"num", 39>>)

\* r.timestamp ? new Date(r.timestamp) : null, then the validity test
\* ts && !Number.isNaN(ts.getTime()) ? ts.toISOString() : null
Truthy(v) == v[1] # "null" /\ ~(v[1] \in {"ms", "num"} /\ v[2] = 0)
ToISOString(v) ==
  IF Truthy(v) /\ v[1] \in {"iso", "ms"} THEN <<"iso", v[2]>> ELSE NullV

\* r.x == null ? null : Number(r.x)
ToNumber(v) ==
  CASE v[1] = "null" -> NullV
    [] v[1] \in {"num", "str"} -> <<"num", v[2]>>
    [] OTHER -> NaNV

MapReading(r) ==
  Reading(ToISOString(r.timestamp), ToNumber(r.temperature), ToNumber(r.humidity))

\* The filter of normalizeReadings: r.timestamp && r.temperature !== null
\* && r.humidity !== null (NaN !== null, so NaN passes).
KeepReading(r) ==
  Truthy(r.timestamp) /\ r.temperature # NullV /\ r.humidity # NullV

MapSeq(s) == [i \in 1..Len(s) |-> MapReading(s[i])]

\* normalizeReadings throws on an array element that is null (r.timestamp
\* of null); a non-array yields [].
NormalizeThrows(body) == body.kind = "nullitem"

normalizeReadings(body) ==
  IF body.kind # "array" THEN <<>>
  ELSE SelectSeq(MapSeq(body.items), KeepReading)

\* JSON.stringify of a normalized set: NaN is written as null.
StringifyNumber(v) == IF v[1] = "nan" THEN NullV ELSE v

JSONstringify(set) ==
  ArrayBody([i \in 1..Len(set) |->
    Reading(set[i].timestamp, StringifyNumber(set[i].temperature),
            StringifyNumber(set[i].humidity))])

\* response.json() / JSON.parse throw on text that is not JSON.
ParseThrows(body) == body.kind = "malformed"

\* ------------------------------------------------------------------ URLs
\* A URL is the sequence of its parts; String.includes is containment of
\* a contiguous run of parts.
DJANGO_ORIGIN == "https://django-iot-backend.onrender.com"
API_PATH == <<"/api", "/data/">>
LOGIN_PATH == <<"/api", "/login">>

\* process.env.REACT_APP_BACKEND_URL
REACT_APP_BACKEND_URL == <<DJANGO_ORIGIN>>

\* `${process.env.REACT_APP_BACKEND_URL}${API_PATH}`
apiUrl == REACT_APP_BACKEND_URL \o API_PATH

\* Fuzzy siblings of the feed and a key of another resource.
apiUrlQuery == apiUrl \o <<"?x=1">>
otherHostApiUrl == <<"https://host">> \o API_PATH
otherResourceUrl == <<DJANGO_ORIGIN, "/api", "/other/">>

Includes(url, pat) ==
  \E i \in 1..Len(url) :
    i + Len(pat) - 1 <= Len(url) /\ SubSeq(url, i, i + Len(pat) - 1) = pat

\* ---------------------------------------------------------- CacheStorage
\* A cache store name is <<family, version>>.
SensorCacheName(v) == <<"sensor-data-cache", v>>
StaticCacheName(v) == <<"static-assets", v>>
ImageCacheName(v) == <<"images", v>>
PrecacheName == <<"workbox-precache", "v2">>

\* const CACHE_NAME = "sensor-data-cache-v7" (the App)
CACHE_NAME == SensorCacheName("v7")

Versions == {"v6", "v7", "v9"}
StoreNames ==
  {SensorCacheName(v) : v \in Versions} \cup {StaticCacheName(v) : v \in Versions}
  \cup {ImageCacheName(v) : v \in Versions} \cup {PrecacheName}

Entry(url, body) == [url |-> url, body |-> body]

\* CacheStorage maps a name to a cache object.  caches.delete unmaps the
\* name; a Cache object obtained earlier keeps working on the unmapped
\* (doomed) object, and a later caches.open of the name creates a new,
\* empty object.  gen counts the objects the name has had, so a handle
\* [name, gen] tells the mapped object from the doomed one.
NoStore == [exists |-> FALSE, gen |-> 0, entries |-> <<>>, doomed |-> <<>>]
StoreWith(es) == [exists |-> TRUE, gen |-> 0, entries |-> es, doomed |-> <<>>]

Handle(cs, name) == [name |-> name, gen |-> cs[name].gen]

CachesOpen_Truncates(cs, name) == [cs EXCEPT ![name].exists = TRUE, ![name].entries = <<>>]

\* caches.open(name): creates the store when it does not exist.
CachesOpen(cs, name) == [cs EXCEPT ![name].exists = TRUE]

\* caches.delete(name)
CachesDelete(cs, name) ==
  IF cs[name].exists
  THEN [cs EXCEPT ![name] = [exists |-> FALSE, gen |-> @.gen + 1,
                             entries |-> <<>>, doomed |-> @.entries]]
  ELSE cs

\* caches.keys(): the names of the existing stores.
CachesKeys(cs) == {n \in DOMAIN cs : cs[n].exists}

IsMapped(cs, h) == cs[h.name].exists /\ cs[h.name].gen = h.gen

EntriesOf(cs, h) ==
  IF IsMapped(cs, h) THEN cs[h.name].entries ELSE cs[h.name].doomed

FirstIndex(es, Test(_)) ==
  IF \E i \in 1..Len(es) : Test(es[i])
  THEN CHOOSE i \in 1..Len(es) : Test(es[i]) /\ \A j \in 1..(i - 1) : ~Test(es[j])
  ELSE 0

\* cache.match(url): the response stored under exactly this URL, if any.
MatchIndex(es, url) == LET T(e) == e.url = url IN FirstIndex(es, T)

CacheMatch_Miss(cs, h, url) == NoBody

CacheMatch(cs, h, url) ==
  LET es == EntriesOf(cs, h)
      i == MatchIndex(es, url)
  IN IF i = 0 THEN NoBody ELSE es[i].body

FindIncludes_LastKey(es, pat) ==
  LET holders == {i \in 1..Len(es) : Includes(es[i].url, pat)}
  IN IF holders = {} THEN <<>>
     ELSE es[CHOOSE i \in holders : \A j \in holders : j <= i].url

\* keys.find((req) => req.url && req.url.includes(pat)): the first stored
\* key, in the store's order, whose URL contains pat.
FindIncludes(es, pat) ==
  LET T(e) == Includes(e.url, pat)
      i == FirstIndex(es, T)
  IN IF i = 0 THEN <<>> ELSE es[i].url

\* cache.put(url, response): replaces the entry stored under the URL; the
\* new entry goes to the end of the store's order.
PutEntry(es, url, body) ==
  LET T(e) == e.url # url IN Append(SelectSeq(es, T), Entry(url, body))

CachePut(cs, h, url, body) ==
  IF IsMapped(cs, h)
  THEN [cs EXCEPT ![h.name].entries = PutEntry(@, url, body)]
  ELSE [cs EXCEPT ![h.name].doomed = PutEntry(@, url, body)]

\* ----------------------------------------------------------------- state
VARIABLES
  online,        \* navigator.onLine
  mounted,       \* the App's effect: "idle", "running", "stopped"
  stoppedRef,    \* stoppedRef.current
  pollingRef,    \* pollingRef.current: a timer id, or NoTimer
  timers,        \* the interval timers that are active
  timerSeq,      \* how many timers setInterval has handed out
  clearedTwice,  \* clearInterval was called on a timer no longer active
  jwtRef,        \* jwtRef.current
  data,          \* useState data
  cached,        \* useState cached
  error,         \* useState error
  cyc,           \* the poll cycles in flight: where each fetchData call is
  localStorage,  \* localStorage["cachedSensorData"]
  caches,        \* CacheStorage
  lastPut,       \* the set the latest completed write-through stored
  swVersion,     \* SW_VERSION of the service worker being installed
  inst,          \* the install handler
  act,           \* the activate handler
  rt,            \* the /api/data/ route handler
  atActivate     \* CacheStorage as the activate handler found it

appVars ==
  <<online, mounted, stoppedRef, pollingRef, timers, timerSeq, clearedTwice,
    jwtRef, data, cached, error, cyc, localStorage>>

swVars == <<swVersion, inst, act, rt, atActivate>>

\* ---------------------------------------------------------------- timers
NoTimer == 0

TimerState ==
  [ref |-> pollingRef, active |-> timers, seq |-> timerSeq, twice |-> clearedTwice]

SetTimerState(t) ==
  /\ pollingRef' = t.ref
  /\ timers' = t.active
  /\ timerSeq' = t.seq
  /\ clearedTwice' = t.twice

\* pollingRef.current = setInterval(fetchData, 5000)
SetPolling(t) ==
  [t EXCEPT !.ref = t.seq + 1, !.active = t.active \cup {t.seq + 1}, !.seq = t.seq + 1]

ClearPolling_RefOnly(t) == [t EXCEPT !.ref = NoTimer]

\* if (pollingRef.current) { clearInterval(pollingRef.current); pollingRef.current = null; }
ClearPolling(t) ==
  IF t.ref # NoTimer
  THEN [t EXCEPT !.ref = NoTimer, !.active = t.active \ {t.ref},
                 !.twice = t.twice \/ t.ref \notin t.active]
  ELSE t

\* "Ensure polling is running when online": if (!pollingRef.current)
NeedsTimer_Always(ref) == TRUE

NeedsTimer(ref) == ref = NoTimer

EnsurePolling(t) == IF NeedsTimer(t.ref) THEN SetPolling(t) ELSE t

\* The effect's own start of the timer: if (!pollingRef.current) setInterval
StartPolling(t) == IF t.ref = NoTimer THEN SetPolling(t) ELSE t

\* The cleanup's timer handling.
CleanupPolling_KeepTimer(t) == t

CleanupPolling(t) == ClearPolling(t)

\* ------------------------------------------------------------ poll cycle
Tokens == {"t1", "t2"}
Falsy_Never(tok) == FALSE

\* !jwtRef.current
Falsy(tok) == tok \in {"null", "undefined"}

IdleCycle ==
  [pc |-> "idle", br |-> "none", gen |-> 0, key |-> <<>>, resp |-> NoBody,
   norm |-> <<>>, tok |-> "null"]

At(c, pc) == cyc[c].pc = pc
Goto(c, pc) == [cyc[c] EXCEPT !.pc = pc]

\* readCachedData() is entered on behalf of branch br of fetchData.
EnterRead(br) == [IdleCycle EXCEPT !.pc = "rc_open", !.br = br]

\* The try blocks of fetchData and readCachedData: the cache reads of
\* readCachedData, the online path of fetchData (login, feed request,
\* json(), normalizeReadings), localStorage.setItem and the write-through.
TryBlocks == {"readCache", "request", "setItem", "writeThrough"}

Catches_Nothing(site) == FALSE

\* An exception thrown at site is caught by an enclosing try.
Catches(site) == site \in TryBlocks

\* The promise of a fetchData call rejected: nothing handled the exception.
Rejected == [IdleCycle EXCEPT !.pc = "rejected"]

\* catch (err) of the online path: readCachedData() is tried.
CatchBranch == IF Catches("request") THEN EnterRead("catch") ELSE Rejected

\* The synchronous head of fetchData, up to its first await: the stopped
\* guard, the offline branch, "ensure polling", and the first request.
HeadCycle_NoOfflineTest ==
  IF stoppedRef THEN IdleCycle
  ELSE IF Falsy(jwtRef) THEN [IdleCycle EXCEPT !.pc = "login"]
  ELSE [IdleCycle EXCEPT !.pc = "data", !.tok = jwtRef]

HeadCycle ==
  IF stoppedRef THEN IdleCycle
  ELSE IF ~online THEN EnterRead("offline")
  ELSE IF Falsy(jwtRef) THEN [IdleCycle EXCEPT !.pc = "login"]
  ELSE [IdleCycle EXCEPT !.pc = "data", !.tok = jwtRef]

HeadTimer(t) ==
  IF stoppedRef \/ ~online THEN t ELSE EnsurePolling(t)

\* useEffect: stoppedRef.current = false; fetchData(); start the timer.
Start ==
  /\ mounted = "idle"
  /\ mounted' = "running"
  /\ stoppedRef' = FALSE
  /\ cyc' = [cyc EXCEPT ![1] = HeadCycle]
  /\ StartPolling(HeadTimer(TimerState)).seq <= MaxTimers
  /\ SetTimerState(StartPolling(HeadTimer(TimerState)))
  /\ UNCHANGED <<swVars, online, jwtRef, data, cached, error, localStorage, caches, lastPut>>

\* The lowest free cycle slot (slots are only names for concurrent calls).
FreeSlot(c) == At(c, "idle") /\ \A d \in 1..(c - 1) : ~At(d, "idle")

\* A timer fires: fetchData() is called.
Tick(c) ==
  /\ timers # {}
  /\ FreeSlot(c)
  /\ cyc' = [cyc EXCEPT ![c] = HeadCycle]
  /\ HeadTimer(TimerState).seq <= MaxTimers
  /\ SetTimerState(HeadTimer(TimerState))
  /\ UNCHANGED <<swVars, online, mounted, stoppedRef, jwtRef, data, cached, error,
                 localStorage, caches, lastPut>>

\* The effect's cleanup.
Teardown ==
  /\ mounted = "running"
  /\ mounted' = "stopped"
  /\ stoppedRef' = TRUE
  /\ SetTimerState(CleanupPolling(TimerState))
  /\ UNCHANGED <<swVars, online, jwtRef, data, cached, error, cyc, localStorage, caches, lastPut>>

\* Connectivity changes.
Connectivity ==
  /\ online' = ~online
  /\ UNCHANGED <<swVars, mounted, stoppedRef, pollingRef, timers, timerSeq,
                 clearedTwice, jwtRef, data, cached, error, cyc, localStorage, caches,
                 lastPut>>

\* ------------------------------------------------------------ publishing
UI == [data |-> data, cached |-> cached, error |-> error]

SetUI(u) == data' = u.data /\ cached' = u.cached /\ error' = u.error

NoResult == [found |-> FALSE, data |-> <<>>]
Result(set) == [found |-> TRUE, data |-> set]

\* cachedData && cachedData.length > 0
Usable(res) == res.found /\ Len(res.data) > 0

\* What fetchData publishes after readCachedData() returned res in branch br.
PublishCached(u, br, res) ==
  IF Usable(res) THEN [data |-> res.data, cached |-> TRUE, error |-> "null"]
  ELSE CASE br = "offline" ->
              [data |-> <<>>, cached |-> FALSE,
               error |-> "Offline - no cached data available"]
         [] br = "loginfail" -> [u EXCEPT !.error = "Login failed"]
         [] br = "datafail" -> [u EXCEPT !.error = "Failed to fetch sensor data"]
         [] OTHER -> [data |-> <<>>, cached |-> FALSE, error |-> "Unexpected error"]

\* setData(normalized); setCached(false); setError(null)
\* new Date(timestamp) as a number; every published timestamp is an ISO
\* string that normalizeReadings produced, so the date is valid.
DateValue(ts) == ts[2]

Compare_Reversed(a, b) == DateValue(b.timestamp) - DateValue(a.timestamp)

\* (a, b) => new Date(a.timestamp) - new Date(b.timestamp)
Compare(a, b) == DateValue(a.timestamp) - DateValue(b.timestamp)

\* Array.prototype.sort is stable: an element goes after every element
\* that does not compare greater than it.
InsertSorted(s, r) ==
  LET before == {i \in 0..Len(s) : \A j \in 1..i : Compare(s[j], r) <= 0}
      k == CHOOSE i \in before : \A m \in before : m <= i
  IN SubSeq(s, 1, k) \o <<r>> \o SubSeq(s, k + 1, Len(s))

RECURSIVE SortReadings(_)
SortReadings(s) ==
  IF s = <<>> THEN <<>>
  ELSE InsertSorted(SortReadings(SubSeq(s, 1, Len(s) - 1)), s[Len(s)])

\* const sortedData = [...data].sort(...)
sortedData == SortReadings(data)

PublishLive(set) == [data |-> set, cached |-> FALSE, error |-> "null"]

\* -------------------------------------------------------- readCachedData
\* The localStorage tier: getItem, JSON.parse, normalizeReadings, all in
\* one try; lsFails is getItem throwing.
LocalRead(lsFails) ==
  IF lsFails \/ localStorage = NoBody \/ ParseThrows(localStorage)
     \/ NormalizeThrows(localStorage)
  THEN NoResult
  ELSE Result(normalizeReadings(localStorage))

\* readCachedData returns res to fetchData, which publishes and returns;
\* the offline branch then stops the timer.
Return(c, res) ==
  /\ SetUI(PublishCached(UI, cyc[c].br, res))
  /\ SetTimerState(IF cyc[c].br = "offline" THEN ClearPolling(TimerState) ELSE TimerState)
  /\ cyc' = [cyc EXCEPT ![c] = IdleCycle]
  /\ UNCHANGED <<swVars, online, mounted, stoppedRef, jwtRef, localStorage, lastPut>>

\* An exception leaves fetchData.
Unhandled(c) ==
  /\ cyc' = [cyc EXCEPT ![c] = Rejected]
  /\ UNCHANGED <<swVars, online, mounted, stoppedRef, pollingRef, timers, timerSeq,
                 clearedTwice, jwtRef, data, cached, error, localStorage, caches,
                 lastPut>>

\* A cache operation of readCachedData throws: its catch logs, and the
\* localStorage tier is tried.
ReadThrows(c, lsFails) ==
  IF Catches("readCache")
  THEN Return(c, LocalRead(lsFails)) /\ UNCHANGED caches
  ELSE Unhandled(c)

\* const cache = await caches.open(CACHE_NAME)
RcOpen(c, e) ==
  /\ At(c, "rc_open")
  /\ \E fails \in e.fails, lsFails \in e.lsFails :
       IF fails
       THEN ReadThrows(c, lsFails)
       ELSE /\ ~lsFails
            /\ caches' = CachesOpen(caches, CACHE_NAME)
            /\ cyc' = [cyc EXCEPT ![c] =
                 [@ EXCEPT !.pc = "rc_match", !.gen = caches[CACHE_NAME].gen]]
            /\ UNCHANGED <<swVars, online, mounted, stoppedRef, pollingRef, timers, timerSeq,
                           clearedTwice, jwtRef, data, cached, error, localStorage,
                           lastPut>>

CycleHandle(c) == [name |-> CACHE_NAME, gen |-> cyc[c].gen]

Stay(c, next) ==
  /\ cyc' = [cyc EXCEPT ![c] = next]
  /\ UNCHANGED <<swVars, online, mounted, stoppedRef, pollingRef, timers, timerSeq,
                 clearedTwice, jwtRef, data, cached, error, localStorage, caches,
                 lastPut>>

\* let cachedResponse = await cache.match(apiUrl)
RcMatch(c, e) ==
  /\ At(c, "rc_match")
  /\ \E fails \in e.fails, lsFails \in e.lsFails :
       LET body == CacheMatch(caches, CycleHandle(c), apiUrl) IN
       IF fails THEN ReadThrows(c, lsFails)
       ELSE /\ ~lsFails
            /\ IF body # NoBody
               THEN Stay(c, [cyc[c] EXCEPT !.pc = "rc_json", !.resp = body])
               ELSE Stay(c, Goto(c, "rc_keys"))

\* const keys = await cache.keys(); keys.find(...includes(API_PATH))
RcKeys(c, e) ==
  /\ At(c, "rc_keys")
  /\ \E fails \in e.fails, lsFails \in e.lsFails :
       LET key == FindIncludes(EntriesOf(caches, CycleHandle(c)), API_PATH) IN
       IF fails THEN ReadThrows(c, lsFails)
       ELSE IF key = <<>> THEN Return(c, LocalRead(lsFails)) /\ UNCHANGED caches
       ELSE /\ ~lsFails
            /\ Stay(c, [cyc[c] EXCEPT !.pc = "rc_match2", !.key = key])

\* cachedResponse = await cache.match(matchReq.url || matchReq)
RcMatch2(c, e) ==
  /\ At(c, "rc_match2")
  /\ \E fails \in e.fails, lsFails \in e.lsFails :
       LET body == CacheMatch(caches, CycleHandle(c), cyc[c].key) IN
       IF fails THEN ReadThrows(c, lsFails)
       ELSE IF body = NoBody THEN Return(c, LocalRead(lsFails)) /\ UNCHANGED caches
       ELSE /\ ~lsFails
            /\ Stay(c, [cyc[c] EXCEPT !.pc = "rc_json", !.resp = body, !.key = <<>>])

\* const json = await cachedResponse.json(); return normalizeReadings(json)
RcJson(c, e) ==
  /\ At(c, "rc_json")
  /\ \E lsFails \in e.lsFails :
       LET body == cyc[c].resp IN
       IF ParseThrows(body) \/ NormalizeThrows(body)
       THEN ReadThrows(c, lsFails)
       ELSE /\ ~lsFails
            /\ Return(c, Result(normalizeReadings(body)))
            /\ UNCHANGED caches

\* ------------------------------------------------------------- fetchData
\* What the login endpoint may answer: a network error, a non-ok status, an
\* ok status with a body that is not JSON, one without a token field, or
\* one with a token.
LoginOutcomes == {"neterr", "nonok", "badjson", "notoken"} \cup Tokens

\* What the sensor feed may answer with an ok status.
FeedBodies ==
  { ArrayBody(<<RA>>), ArrayBody(<<RB, RNullTemp>>), ArrayBody(<<RText>>),
    ArrayBody(<<>>), MalformedBody }

\* const loginRes = await fetch(LOGIN_PATH ...); if (!loginRes.ok) ...;
\* jwtRef.current = (await loginRes.json()).token; then the feed request.
LoginResp(c, e) ==
  /\ At(c, "login")
  /\ \E out \in e.login :
       /\ jwtRef' = (IF out \in Tokens THEN out
                     ELSE IF out = "notoken" THEN "undefined" ELSE jwtRef)
       /\ cyc' = [cyc EXCEPT ![c] =
            CASE out = "nonok" -> EnterRead("loginfail")
              [] out \in {"neterr", "badjson"} -> CatchBranch
              [] OTHER -> [IdleCycle EXCEPT !.pc = "data", !.tok = jwtRef']]
  /\ UNCHANGED <<swVars, online, mounted, stoppedRef, pollingRef, timers, timerSeq,
                 clearedTwice, data, cached, error, localStorage, caches, lastPut>>

\* const res = await fetch(apiUrl, {Authorization}) answered with a network
\* error or a non-ok status: readCachedData() is tried; jwtRef is left alone.
DataFail(c, e) ==
  /\ At(c, "data")
  /\ \E out \in e.data :
       cyc' = [cyc EXCEPT ![c] = IF out = NonOk THEN EnterRead("datafail") ELSE CatchBranch]
  /\ UNCHANGED <<swVars, online, mounted, stoppedRef, pollingRef, timers, timerSeq,
                 clearedTwice, jwtRef, data, cached, error, localStorage, caches,
                 lastPut>>

\* ... answered ok: json(), normalizeReadings, publish, localStorage.setItem
\* (a failure of setItem is ignored), then the cache write-through begins.
Received(c, body, lsFails) ==
  /\ IF ParseThrows(body) \/ NormalizeThrows(body)
     THEN /\ ~lsFails
          /\ cyc' = [cyc EXCEPT ![c] = CatchBranch]
          /\ UNCHANGED <<data, cached, error, localStorage>>
     ELSE /\ SetUI(PublishLive(normalizeReadings(body)))
          /\ localStorage' = (IF lsFails THEN localStorage
                              ELSE JSONstringify(normalizeReadings(body)))
          /\ cyc' = [cyc EXCEPT ![c] =
               IF lsFails /\ ~Catches("setItem") THEN Rejected
               ELSE [IdleCycle EXCEPT !.pc = "wt_open", !.norm = normalizeReadings(body)]]
  /\ UNCHANGED <<online, mounted, stoppedRef, pollingRef, timers, timerSeq,
                 clearedTwice, jwtRef, caches, lastPut>>

\* The feed server itself answers ok.
DataOk(c, e) ==
  /\ At(c, "data")
  /\ \E body \in e.feed, lsFails \in e.lsFails : Received(c, body, lsFails)
  /\ UNCHANGED swVars

NoPut == [valid |-> FALSE, set |-> <<>>]

\* const cache = await caches.open(CACHE_NAME) of the write-through; a
\* failure is caught and ignored.
WtOpen(c, e) ==
  /\ At(c, "wt_open")
  /\ \E fails \in e.fails :
       IF fails
       THEN /\ cyc' = [cyc EXCEPT ![c] = IF Catches("writeThrough") THEN IdleCycle ELSE Rejected]
            /\ UNCHANGED caches
       ELSE /\ caches' = CachesOpen(caches, CACHE_NAME)
            /\ cyc' = [cyc EXCEPT ![c] =
                 [@ EXCEPT !.pc = "wt_put", !.gen = caches[CACHE_NAME].gen]]
  /\ UNCHANGED <<swVars, online, mounted, stoppedRef, pollingRef, timers, timerSeq,
                 clearedTwice, jwtRef, data, cached, error, localStorage, lastPut>>

\* The body the write-through stores.
WriteThroughBody(set) == JSONstringify(set)

\* await cache.put(apiUrl, new Response(JSON.stringify(normalized)))
WtPut(c, e) ==
  /\ At(c, "wt_put")
  /\ \E fails \in e.fails :
       IF fails
       THEN /\ cyc' = [cyc EXCEPT ![c] = IF Catches("writeThrough") THEN IdleCycle ELSE Rejected]
            /\ UNCHANGED <<caches, lastPut>>
       ELSE /\ caches' = CachePut(caches, CycleHandle(c), apiUrl,
                                  WriteThroughBody(cyc[c].norm))
            /\ lastPut' = (IF IsMapped(caches, CycleHandle(c))
                           THEN [valid |-> TRUE, set |-> cyc[c].norm]
                           ELSE lastPut)
            /\ cyc' = [cyc EXCEPT ![c] = IdleCycle]
  /\ UNCHANGED <<swVars, online, mounted, stoppedRef, pollingRef, timers, timerSeq,
                 clearedTwice, jwtRef, data, cached, error, localStorage>>

CycleStep(c, e) ==
  \/ LoginResp(c, e)
  \/ DataFail(c, e)
  \/ DataOk(c, e)
  \/ WtOpen(c, e)
  \/ WtPut(c, e)
  \/ RcOpen(c, e)
  \/ RcMatch(c, e)
  \/ RcKeys(c, e)
  \/ RcMatch2(c, e)
  \/ RcJson(c, e)

\* -------------------------------------------------------- service worker
\* const SENSOR_CACHE = `sensor-data-cache-${SW_VERSION}` and its siblings
SENSOR_CACHE == SensorCacheName(swVersion)
STATIC_CACHE == StaticCacheName(swVersion)
IMAGE_CACHE == ImageCacheName(swVersion)

\* const apiUrl = 'https://django-iot-backend.onrender.com/api/data/'
installApiUrl == <<DJANGO_ORIGIN>> \o API_PATH

Minutes(n) == <<"iso", n>>
Tenths(n) == <<"num", n>>

installFallbackPayload_Empty == ArrayBody(<<>>)

\* new Date(now - k * 60000) for k = 11 .. 5, with now at minute 20.
installFallbackPayload ==
  ArrayBody(<< Reading(Minutes(9), Tenths(215), Tenths(450)),
               Reading(Minutes(10), Tenths(217), Tenths(440)),
               Reading(Minutes(11), Tenths(216), Tenths(445)),
               Reading(Minutes(12), Tenths(218), Tenths(440)),
               Reading(Minutes(13), Tenths(220), Tenths(435)),
               Reading(Minutes(14), Tenths(223), Tenths(430)),
               Reading(Minutes(15), Tenths(221), Tenths(432)) >>)

\* v6: one zero reading stamped new Date().
installFallbackPayloadV6 ==
  ArrayBody(<< Reading(Minutes(20), Tenths(0), Tenths(0)) >>)

\* The payload install stores when its fetch gave no ok response.
InstallFallback ==
  IF swVersion = "v6" THEN installFallbackPayloadV6 ELSE installFallbackPayload

\* v7 and v9 test for an existing entry before they fetch; v6 has no test.
ChecksExisting == swVersion # "v6"

\* The minutes at which a request may be handled.
Clock == {20, 21}

\* The route's last resort: one reading stamped new Date() of the call.
routeFallbackPayload(now) ==
  ArrayBody(<< Reading(Minutes(now), Tenths(210), Tenths(440)) >>)

SwHandle == Handle(caches, SENSOR_CACHE)

\* The install handler: where it is, its `existing` test, how many
\* fetches it has issued, what the network answered and what it will put.
IdleInstall ==
  [pc |-> "off", existing |-> FALSE, fetches |-> 0, net |-> NoBody, body |-> NoBody]
IdleActivate == [pc |-> "off", todo |-> {}]
\* prev: the request answered before this one, if any, and its answer.
NoAnswer == [url |-> <<>>, tier |-> "none", body |-> NoBody]
IdleRoute ==
  [pc |-> "idle", url |-> <<>>, net |-> NoBody, key |-> <<>>,
   tier |-> "none", body |-> NoBody, prev |-> NoAnswer]

\* A write to, or the deletion of, the App's store ends what lastPut says.
TrackPut == lastPut' = (IF caches'[CACHE_NAME] # caches[CACHE_NAME] THEN NoPut ELSE lastPut)

\* What a step of the service worker leaves alone.
SwFrame == TrackPut /\ UNCHANGED appVars

\* install: const cache = await caches.open(SENSOR_CACHE)
InstOpen ==
  /\ inst.pc = "start"
  /\ caches' = CachesOpen(caches, SENSOR_CACHE)
  /\ inst' = [inst EXCEPT !.pc = IF ChecksExisting THEN "match" ELSE "fetch"]
  /\ UNCHANGED <<swVersion, act, rt, atActivate>>
  /\ SwFrame

\* const existing = await cache.match(apiUrl); if (existing) return;
InstMatch ==
  /\ inst.pc = "match"
  /\ LET existing == CacheMatch(caches, SwHandle, installApiUrl) # NoBody IN
     inst' = [inst EXCEPT !.pc = IF existing THEN "done" ELSE "fetch",
                          !.existing = existing]
  /\ UNCHANGED <<caches, swVersion, act, rt, atActivate>>
  /\ SwFrame

\* const resp = await fetch(apiUrl); an ok response is what gets stored,
\* anything else makes the fallback series the payload.
InstFetch(e) ==
  /\ inst.pc = "fetch"
  /\ \E out \in e.data \cup e.feed :
       inst' = [inst EXCEPT !.pc = "put", !.fetches = @ + 1, !.net = out,
                            !.body = IF IsOk(out) THEN out ELSE InstallFallback]
  /\ UNCHANGED <<caches, swVersion, act, rt, atActivate>>
  /\ SwFrame

\* await cache.put(apiUrl, ...)
InstPut ==
  /\ inst.pc = "put"
  /\ caches' = CachePut(caches, SwHandle, installApiUrl, inst.body)
  /\ inst' = [inst EXCEPT !.pc = "done", !.body = NoBody]
  /\ UNCHANGED <<swVersion, act, rt, atActivate>>
  /\ SwFrame

\* activate: the stores that are kept, and the filter over caches.keys().
KeepList == {SENSOR_CACHE, STATIC_CACHE, IMAGE_CACHE}

ToDelete_Everything(keys) == keys

ToDelete_SensorOnly(keys) == {k \in keys : k[1] = "sensor-data-cache" /\ k \notin KeepList}

ToDelete(keys) == {k \in keys : k \notin KeepList}

\* const keys = await caches.keys(); every delete is then started at once.
ActKeys ==
  /\ inst.pc = "done"
  /\ act.pc = "start"
  /\ act' = [pc |-> IF ToDelete(CachesKeys(caches)) = {} THEN "claim" ELSE "deleting",
             todo |-> ToDelete(CachesKeys(caches))]
  /\ atActivate' = caches
  /\ UNCHANGED <<caches, swVersion, inst, rt>>
  /\ SwFrame

\* One caches.delete(k) of the Promise.all completes.
ActDelete(k) ==
  /\ act.pc = "deleting"
  /\ k \in act.todo
  /\ caches' = CachesDelete(caches, k)
  /\ act' = [pc |-> IF act.todo = {k} THEN "claim" ELSE "deleting", todo |-> act.todo \ {k}]
  /\ UNCHANGED <<swVersion, inst, rt, atActivate>>
  /\ SwFrame

\* await self.clients.claim()
ActClaim ==
  /\ act.pc = "claim"
  /\ act' = [act EXCEPT !.pc = "done"]
  /\ UNCHANGED <<caches, swVersion, inst, rt, atActivate>>
  /\ SwFrame

Activated == act.pc = "done"

\* The requests the route matches: origin django-iot-backend.onrender.com
\* and a pathname that starts with /api/data/.
RouteUrls == {apiUrl, apiUrlQuery}

\* The handler answers (or, with tier "rejected", rejects).  rt.net keeps
\* what the network did for this request.
Respond(tier, body) == [rt EXCEPT !.pc = "idle", !.key = <<>>, !.tier = tier, !.body = body]

\* A storage failure inside a try block goes on to the next tier; v9 has
\* no try around its cache reads, so there the handler rejects.
ReadsAreGuarded == swVersion = "v7"

\* A request for the feed arrives at the active service worker.
RouteRequest(url) ==
  /\ Activated
  /\ rt.pc = "idle"
  /\ rt' = [IdleRoute EXCEPT !.pc = "open", !.url = url,
                            !.prev = IF rt.tier = "none" THEN rt.prev
                                     ELSE [url |-> rt.url, tier |-> rt.tier, body |-> rt.body]]
  /\ UNCHANGED <<caches, swVersion, inst, act, atActivate>>
  /\ SwFrame

\* const cache = await caches.open(SENSOR_CACHE)
RtOpen(e) ==
  /\ rt.pc = "open"
  /\ \E fails \in e.fails :
       IF fails
       THEN rt' = Respond("rejected", NoBody) /\ UNCHANGED caches
       ELSE /\ caches' = CachesOpen(caches, SENSOR_CACHE)
            /\ rt' = [rt EXCEPT !.pc = "fetch"]
  /\ UNCHANGED <<swVersion, inst, act, atActivate>>
  /\ SwFrame

\* const networkResponse = await fetch(request)
RtFetch(e) ==
  /\ rt.pc = "fetch"
  /\ \E out \in e.data \cup e.feed :
       rt' = [rt EXCEPT !.pc = IF IsOk(out) THEN "put" ELSE "exact", !.net = out]
  /\ UNCHANGED <<caches, swVersion, inst, act, atActivate>>
  /\ SwFrame

\* await cache.put(apiKey, networkResponse.clone()) in its own try, then
\* return networkResponse
RtPut(e) ==
  /\ rt.pc = "put"
  /\ \E fails \in e.fails :
       caches' = (IF fails THEN caches ELSE CachePut(caches, SwHandle, rt.url, rt.net))
  /\ rt' = Respond("live", rt.net)
  /\ UNCHANGED <<swVersion, inst, act, atActivate>>
  /\ SwFrame

\* const cached = await cache.match(apiKey); if (cached) return cached;
RtExact(e) ==
  /\ rt.pc = "exact"
  /\ \E fails \in e.fails :
       LET hit == CacheMatch(caches, SwHandle, rt.url) IN
       rt' = IF fails
             THEN (IF ReadsAreGuarded THEN [rt EXCEPT !.pc = "keys"]
                   ELSE Respond("rejected", NoBody))
             ELSE IF hit # NoBody THEN Respond("exact", hit)
             ELSE [rt EXCEPT !.pc = "keys"]
  /\ UNCHANGED <<caches, swVersion, inst, act, atActivate>>
  /\ SwFrame

\* const keys = await cache.keys(); keys.find(...includes('/api/data/'))
RtKeys(e) ==
  /\ rt.pc = "keys"
  /\ \E fails \in e.fails, now \in Clock :
       LET key == FindIncludes(EntriesOf(caches, SwHandle), API_PATH) IN
       rt' = IF fails
             THEN (IF ReadsAreGuarded THEN Respond("synthetic", routeFallbackPayload(now))
                   ELSE Respond("rejected", NoBody))
             ELSE IF key = <<>> THEN Respond("synthetic", routeFallbackPayload(now))
             ELSE [rt EXCEPT !.pc = "fuzzy", !.key = key]
  /\ UNCHANGED <<caches, swVersion, inst, act, atActivate>>
  /\ SwFrame

\* const cached = await cache.match(matchReq.url); if (cached) return cached;
RtFuzzy(e) ==
  /\ rt.pc = "fuzzy"
  /\ \E fails \in e.fails, now \in Clock :
       LET hit == CacheMatch(caches, SwHandle, rt.key) IN
       rt' = IF fails
             THEN (IF ReadsAreGuarded THEN Respond("synthetic", routeFallbackPayload(now))
                   ELSE Respond("rejected", NoBody))
             ELSE IF hit # NoBody THEN Respond("fuzzy", hit)
             ELSE Respond("synthetic", routeFallbackPayload(now))
  /\ UNCHANGED <<caches, swVersion, inst, act, atActivate>>
  /\ SwFrame

\* The service worker's handlers in environment e.
InstallNext(e) == InstOpen \/ InstMatch \/ InstFetch(e) \/ InstPut

ActivateNext == ActKeys \/ ActClaim \/ \E k \in StoreNames : ActDelete(k)

RouteNext(e) ==
  \/ \E url \in RouteUrls : RouteRequest(url)
  \/ RtOpen(e)
  \/ RtFetch(e)
  \/ RtPut(e)
  \/ RtExact(e)
  \/ RtKeys(e)
  \/ RtFuzzy(e)

\* --------------------------------------------------------- initial state
EmptyStorage == [n \in StoreNames |-> NoStore]

\* What earlier sessions may have left in the App's store: nothing, or a
\* feed response the service worker cached under a URL with a query string.
InitialAppStores ==
  { NoStore, StoreWith(<<Entry(apiUrlQuery, ArrayBody(<<RA>>))>>) }

PollerInit ==
  /\ online \in BOOLEAN
  /\ mounted = "idle"
  /\ stoppedRef = FALSE
  /\ pollingRef = NoTimer
  /\ timers = {}
  /\ timerSeq = 0
  /\ clearedTwice = FALSE
  /\ jwtRef = "null"
  /\ data = <<>>
  /\ cached = FALSE
  /\ error = "null"
  /\ cyc = [c \in Cycles |-> IdleCycle]
  /\ localStorage = NoBody
  /\ lastPut = NoPut

\* No service worker is being installed.
SwOff ==
  /\ swVersion = "v7"
  /\ inst = IdleInstall
  /\ act = IdleActivate
  /\ rt = IdleRoute
  /\ atActivate = EmptyStorage

\* The poller with cycle slots S in environment e.
PollerNext(S, e) ==
  \/ Start
  \/ Teardown
  \/ Connectivity
  \/ \E c \in S : Tick(c)
  \/ \E c \in S : CycleStep(c, e)

\* Every answer of the servers and every storage failure.
FullEnv ==
  [login |-> LoginOutcomes, data |-> {NetErr, NonOk}, feed |-> FeedBodies,
   fails |-> BOOLEAN, lsFails |-> BOOLEAN]

\* Every answer of the login endpoint, a feed that answers with readings
\* or fails, and storage that works.
CalmEnv ==
  [login |-> LoginOutcomes, data |-> {NetErr, NonOk},
   feed |-> {ArrayBody(<<RA>>)}, fails |-> {FALSE}, lsFails |-> {FALSE}]

vars == <<appVars, lastPut, caches, swVars>>

\* ---- the poller alone
Init ==
  /\ PollerInit
  /\ SwOff
  /\ \E st \in InitialAppStores : caches = [EmptyStorage EXCEPT ![CACHE_NAME] = st]

\* Overlapping poll cycles, connectivity changes and teardown.
Next == PollerNext(Cycles, CalmEnv)

Spec == Init /\ [][Next]_vars

\* Every answer of the servers, with storage that works.
FeedEnv ==
  [login |-> LoginOutcomes, data |-> {NetErr, NonOk}, feed |-> FeedBodies,
   fails |-> {FALSE}, lsFails |-> {FALSE}]

\* One poll cycle at a time, against every answer of the servers.
NextData == PollerNext({1}, FeedEnv)

SpecData == Init /\ [][NextData]_vars

\* One poll cycle at a time, against every answer and storage failure.
NextFaults == PollerNext({1}, FullEnv)

SpecFaults == Init /\ [][NextFaults]_vars

\* The poller's own steps: the effect runs, an active timer fires, an
\* awaited promise settles.  The event loop guarantees each of them once
\* it is due; connectivity changes and teardown are the environment's.
Progress ==
  \/ Start
  \/ \E c \in Cycles : Tick(c)
  \/ \E c \in Cycles : CycleStep(c, CalmEnv)

FairSpec == Spec /\ WF_vars(Progress)

\* The steps that do not wait for a server: the effect runs, a timer
\* fires, a CacheStorage operation settles.  No timer or abort signal of
\* the source bounds a fetch, so an answer is not among them.
LocalProgress ==
  \/ Start
  \/ \E c \in Cycles : Tick(c)
  \/ \E c \in Cycles :
       \/ WtOpen(c, CalmEnv) \/ WtPut(c, CalmEnv)
       \/ RcOpen(c, CalmEnv) \/ RcMatch(c, CalmEnv) \/ RcKeys(c, CalmEnv)
       \/ RcMatch2(c, CalmEnv) \/ RcJson(c, CalmEnv)

\* The poller when a server may leave a request unanswered.
FairLocalSpec == Spec /\ WF_vars(LocalProgress)

\* ---- the route handler of an active service worker
\* The sensor-data store as earlier requests left it.
InitialRouteStores ==
  { NoStore,
    StoreWith(<<Entry(otherResourceUrl, ObjectBody)>>),
    StoreWith(<<Entry(apiUrl, ArrayBody(<<RB>>))>>),
    StoreWith(<<Entry(otherResourceUrl, ObjectBody),
                Entry(otherHostApiUrl, ArrayBody(<<RB>>)),
                Entry(apiUrlQuery, ArrayBody(<<RA, RB>>))>>) }

RouteEnv ==
  [login |-> {}, data |-> {NetErr, NonOk},
   feed |-> {ArrayBody(<<RA>>), ArrayBody(<<>>)}, fails |-> {FALSE}, lsFails |-> {FALSE}]

InitRoute ==
  /\ PollerInit
  /\ swVersion \in {"v7", "v9"}
  /\ inst = [IdleInstall EXCEPT !.pc = "done"]
  /\ act = [IdleActivate EXCEPT !.pc = "done"]
  /\ rt = IdleRoute
  /\ atActivate = EmptyStorage
  /\ \E st \in InitialRouteStores : caches = [EmptyStorage EXCEPT ![SENSOR_CACHE] = st]

NextRoute == RouteNext(RouteEnv)

SpecRoute == InitRoute /\ [][NextRoute]_vars

\* The route handler when CacheStorage operations may fail as well.
RouteFaultEnv == [RouteEnv EXCEPT !.fails = BOOLEAN]

NextRouteFaults == RouteNext(RouteFaultEnv)

SpecRouteFaults == InitRoute /\ [][NextRouteFaults]_vars

\* ---- the page under the control of an active service worker
\* The App's feed request is a fetch event for the /api/data/ route.
FeedViaWorker(c) ==
  /\ At(c, "data")
  /\ rt.tier = "none"
  /\ RouteRequest(apiUrl)

\* What the handler returned is what fetch(...) resolves with in fetchData;
\* a handler that rejected is a network error there.
WorkerAnswers(c) ==
  /\ At(c, "data")
  /\ rt.pc = "idle"
  /\ rt.tier # "none"
  /\ IF rt.tier = "rejected"
     THEN /\ cyc' = [cyc EXCEPT ![c] = CatchBranch]
          /\ UNCHANGED <<online, mounted, stoppedRef, pollingRef, timers, timerSeq,
                         clearedTwice, jwtRef, data, cached, error, localStorage,
                         caches, lastPut>>
     ELSE Received(c, rt.body, FALSE)
  /\ rt' = IdleRoute
  /\ UNCHANGED <<swVersion, inst, act, atActivate>>

ControlledEnv ==
  [login |-> {"t1", "nonok"}, data |-> {NetErr, NonOk}, feed |-> {ArrayBody(<<RA>>)},
   fails |-> {FALSE}, lsFails |-> {FALSE}]

NextControlled ==
  \/ Start
  \/ Teardown
  \/ Connectivity
  \/ Tick(1)
  \/ LoginResp(1, ControlledEnv)
  \/ FeedViaWorker(1)
  \/ WorkerAnswers(1)
  \/ WtOpen(1, ControlledEnv)
  \/ WtPut(1, ControlledEnv)
  \/ RcOpen(1, ControlledEnv)
  \/ RcMatch(1, ControlledEnv)
  \/ RcKeys(1, ControlledEnv)
  \/ RcMatch2(1, ControlledEnv)
  \/ RcJson(1, ControlledEnv)
  \/ RtOpen(ControlledEnv)
  \/ RtFetch(ControlledEnv)
  \/ RtPut(ControlledEnv)
  \/ RtExact(ControlledEnv)
  \/ RtKeys(ControlledEnv)
  \/ RtFuzzy(ControlledEnv)

SpecControlled == InitRoute /\ [][NextControlled]_vars

\* ---- a new service-worker version is installed, activated and serves
\* What earlier versions left in CacheStorage: the three stores of each
\* version in ps, Workbox's precache store if pre, and a sensor store of
\* the new version itself if own, next to its static and image stores.
LeftBehind(ps, pre, own) ==
  [n \in StoreNames |->
     IF n = PrecacheName
     THEN (IF pre THEN StoreWith(<<Entry(otherResourceUrl, ObjectBody)>>) ELSE NoStore)
     ELSE IF n[2] \in ps
     THEN (IF n[1] = "sensor-data-cache"
           THEN StoreWith(<<Entry(apiUrlQuery, ArrayBody(<<RA>>))>>)
           ELSE StoreWith(<<Entry(otherResourceUrl, ObjectBody)>>))
     ELSE IF own /\ n = SENSOR_CACHE
     THEN StoreWith(<<Entry(apiUrl, ArrayBody(<<RB>>))>>)
     ELSE IF own /\ n \in {STATIC_CACHE, IMAGE_CACHE}
     THEN StoreWith(<<Entry(otherResourceUrl, ObjectBody)>>)
     ELSE NoStore]

\* The install event of version swVersion is about to run.
SwInstalling ==
  /\ swVersion \in {"v7", "v9"}
  /\ inst = [IdleInstall EXCEPT !.pc = "start"]
  /\ act = [IdleActivate EXCEPT !.pc = "start"]
  /\ rt = IdleRoute
  /\ atActivate = EmptyStorage

InitSW ==
  /\ PollerInit
  /\ SwInstalling
  /\ \E ps \in SUBSET (Versions \ {swVersion}), pre \in BOOLEAN, own \in BOOLEAN :
       caches = LeftBehind(ps, pre, own)

NextSW == InstallNext(RouteEnv) \/ ActivateNext \/ RouteNext(RouteEnv)

SpecSW == InitSW /\ [][NextSW]_vars

\* The service worker's steps that do not wait for the network.
SwLocalProgress ==
  \/ InstOpen \/ InstMatch \/ InstPut
  \/ ActivateNext
  \/ RtOpen(RouteEnv) \/ RtPut(RouteEnv) \/ RtExact(RouteEnv)
  \/ RtKeys(RouteEnv) \/ RtFuzzy(RouteEnv)

\* The service worker when the network may leave a request unanswered.
FairLocalSW == SpecSW /\ WF_vars(SwLocalProgress)

\* ---- the page and the service worker together
SystemEnv ==
  [login |-> {"t1", "nonok"}, data |-> {NonOk}, feed |-> {ArrayBody(<<RA>>)},
   fails |-> {FALSE}, lsFails |-> {FALSE}]

InitSystem ==
  /\ PollerInit
  /\ SwInstalling
  /\ \E ps \in {{}, Versions \ {swVersion}} : caches = LeftBehind(ps, FALSE, FALSE)

NextSystem == PollerNext({1}, SystemEnv) \/ InstallNext(SystemEnv) \/ ActivateNext

SpecSystem == InitSystem /\ [][NextSystem]_vars

\* ---- a first visit: the page polls while the service worker installs,
\* activates and takes control
LifecycleEnv ==
  [login |-> {"t1"}, data |-> {NetErr}, feed |-> {ArrayBody(<<RA>>)},
   fails |-> {FALSE}, lsFails |-> {FALSE}]

\* The same with storage operations of the worker's route that may fail.
LifecycleFaultEnv == [LifecycleEnv EXCEPT !.fails = BOOLEAN]

InitLifecycle ==
  /\ PollerInit
  /\ SwInstalling
  /\ caches = EmptyStorage

\* Until a worker controls the page its requests go to the network; from
\* activation (clients.claim) on they are fetch events of the worker.
NextLifecycle ==
  \/ Start
  \/ Connectivity
  \/ Tick(1)
  \/ LoginResp(1, LifecycleEnv)
  \/ ~Activated /\ DataOk(1, LifecycleEnv)
  \/ ~Activated /\ DataFail(1, LifecycleEnv)
  \/ FeedViaWorker(1)
  \/ WorkerAnswers(1)
  \/ WtOpen(1, LifecycleEnv)
  \/ WtPut(1, LifecycleEnv)
  \/ RcOpen(1, LifecycleEnv)
  \/ RcMatch(1, LifecycleEnv)
  \/ RcKeys(1, LifecycleEnv)
  \/ RcMatch2(1, LifecycleEnv)
  \/ RcJson(1, LifecycleEnv)
  \/ InstallNext(LifecycleEnv)
  \/ ActivateNext
  \/ RtOpen(LifecycleFaultEnv)
  \/ RtFetch(LifecycleFaultEnv)
  \/ RtPut(LifecycleFaultEnv)
  \/ RtExact(LifecycleFaultEnv)
  \/ RtKeys(LifecycleFaultEnv)
  \/ RtFuzzy(LifecycleFaultEnv)

SpecLifecycle == InitLifecycle /\ [][NextLifecycle]_vars

\* ---- normalizeReadings and sortedData on every small feed array
RawReadings == {RA, RB, RNullTemp, RBadTs, RText, REpoch}

RawBodies ==
  {ArrayBody(s) : s \in UNION {[1..k -> RawReadings] : k \in 0..MaxReadings}}
    \cup {ObjectBody}

\* The first cycle of a started, logged-in App whose feed request was
\* answered ok; res.json() is about to resolve to the body in resp.
InitNormalize ==
  /\ online = TRUE
  /\ mounted = "running"
  /\ stoppedRef = FALSE
  /\ pollingRef = 1
  /\ timers = {1}
  /\ timerSeq = 1
  /\ clearedTwice = FALSE
  /\ jwtRef = "t1"
  /\ data = <<>>
  /\ cached = FALSE
  /\ error = "null"
  /\ \E body \in RawBodies :
       cyc = [c \in Cycles |->
                IF c = 1 THEN [IdleCycle EXCEPT !.pc = "json", !.resp = body, !.tok = "t1"]
                ELSE IdleCycle]
  /\ localStorage = NoBody
  /\ lastPut = NoPut
  /\ SwOff
  /\ caches = EmptyStorage

\* const json = await res.json() and what follows it up to the next await.
Json(c) ==
  /\ At(c, "json")
  /\ Received(c, cyc[c].resp, FALSE)
  /\ UNCHANGED swVars

NextNormalize ==
  \/ Json(1)
  \/ WtOpen(1, CalmEnv)
  \/ WtPut(1, CalmEnv)

SpecNormalize == InitNormalize /\ [][NextNormalize]_vars

\* ---- the page polling a feed of good and bad readings while a worker
\* installs and rotates the stores
RotationEnv ==
  [login |-> {"t1"}, data |-> {NetErr},
   feed |-> {ArrayBody(<<RA>>), ArrayBody(<<RText>>)},
   fails |-> {FALSE}, lsFails |-> {FALSE}]

NextRotation ==
  PollerNext({1}, RotationEnv) \/ InstallNext(RotationEnv) \/ ActivateNext

SpecRotation == InitLifecycle /\ [][NextRotation]_vars

\* ---- the install event of each version, over what earlier versions and
\* an earlier run of the same version left
InstallEnv ==
  [login |-> {}, data |-> {NetErr, NonOk}, feed |-> {ArrayBody(<<RA>>)},
   fails |-> {FALSE}, lsFails |-> {FALSE}]

InitInstall ==
  /\ PollerInit
  /\ swVersion \in Versions
  /\ inst = [IdleInstall EXCEPT !.pc = "start"]
  /\ act = [IdleActivate EXCEPT !.pc = "start"]
  /\ rt = IdleRoute
  /\ atActivate = EmptyStorage
  /\ \E ps \in SUBSET (Versions \ {swVersion}), pre \in BOOLEAN, own \in BOOLEAN :
       caches = LeftBehind(ps, pre, own)

NextInstall == InstallNext(InstallEnv)

SpecInstall == InitInstall /\ [][NextInstall]_vars

\* ---- overlapping poll cycles against a feed whose readings change
OverlapEnv ==
  [login |-> {"t1"}, data |-> {NetErr},
   feed |-> {ArrayBody(<<RA>>), ArrayBody(<<RB>>)},
   fails |-> {FALSE}, lsFails |-> {FALSE}]

NextOverlap == PollerNext(Cycles, OverlapEnv)

SpecOverlap == Init /\ [][NextOverlap]_vars

\* ================================================================ claims

\* C1: the /api/data/ route answers with the highest tier that is
\* available: the network response if the fetch resolved with an ok
\* status; else the entry stored under the request URL; else the entry of
\* the first stored key containing /api/data/; else the synthetic reading.
C1_RouteTierOrder ==
  (rt.pc = "idle" /\ rt.tier # "none") =>
    LET es == caches[SENSOR_CACHE].entries
        exact == {i \in 1..Len(es) : es[i].url = rt.url}
        fuzzy == {i \in 1..Len(es) : Includes(es[i].url, API_PATH)}
        Min(S) == CHOOSE i \in S : \A j \in S : i <= j
    IN IF rt.net.kind \notin {"neterr", "nonok"}
       THEN rt.tier = "live" /\ rt.body = rt.net
       ELSE IF exact # {}
       THEN rt.tier = "exact" /\ rt.body = es[Min(exact)].body
       ELSE IF fuzzy # {}
       THEN rt.tier = "fuzzy" /\ rt.body = es[Min(fuzzy)].body
       ELSE rt.tier = "synthetic" /\ \E now \in Clock : rt.body = routeFallbackPayload(now)

\* The network failed, nothing is stored under the request URL, and the
\* handler answered from a fuzzy sibling while a later sibling exists too.
C1_Witness ==
  /\ rt.pc = "idle"
  /\ rt.tier = "fuzzy"
  /\ rt.net = NonOk
  /\ rt.url = apiUrl
  /\ rt.body = ArrayBody(<<RB>>)
  /\ Len(caches[SENSOR_CACHE].entries) = 3

\* C2: when the feed rejects a request that carried the held token, the
\* poller drops the token (so that the next cycle logs in again).
C2_TokenDroppedOnReject ==
  [][\A c \in Cycles :
       (cyc[c].pc = "data" /\ cyc[c].tok = jwtRef /\ cyc'[c].br = "datafail")
         => Falsy(jwtRef')]_vars

\* C3: while the poller is mounted and its timer was cancelled by an
\* offline cycle, if connectivity stays available from then on (and there
\* is no teardown), a timer is eventually set again.
C3_PollingResumes ==
  [](mounted = "running" /\ pollingRef = NoTimer
       => <>(pollingRef # NoTimer \/ ~online \/ stoppedRef))

\* C4: at most one interval timer is active, it is the one pollingRef
\* holds, and no timer is cancelled twice.
C4_OneTimer ==
  /\ Cardinality(timers) <= 1
  /\ timers = (IF pollingRef = NoTimer THEN {} ELSE {pollingRef})
  /\ ~clearedTwice

\* A cycle that began online is still awaiting the login endpoint; in the
\* meantime an offline cycle cancelled the timer and connectivity returned.
C4_Witness ==
  /\ mounted = "running"
  /\ online
  /\ timerSeq = 1
  /\ timers = {}
  /\ cyc[1].pc = "login"
  /\ cyc[2].pc = "idle"

\* C5: after teardown nothing is published: data, cached and error keep
\* their values.
C5_NoPublishAfterTeardown ==
  [][stoppedRef => UNCHANGED <<data, cached, error>>]_vars

\* C6: after teardown no timer is active and no poll cycle begins, also
\* while a cycle that began earlier is still running.
C6_NoCycleAfterTeardown ==
  [][/\ stoppedRef' => timers' = {}
     /\ stoppedRef => \A c \in Cycles : cyc[c].pc = "idle" => cyc'[c].pc = "idle"]_vars

\* Teardown happened while the first cycle awaits the feed and a second one
\* reads the cache.
C6_Witness ==
  /\ stoppedRef
  /\ mounted = "stopped"
  /\ cyc[1].pc = "data"
  /\ cyc[2].pc = "rc_match"

\* The tiers readCachedData consults, as they are now.
ExactTier == CacheMatch(caches, Handle(caches, CACHE_NAME), apiUrl)

FuzzyTierKeys ==
  LET es == caches[CACHE_NAME].entries
  IN {i \in 1..Len(es) : Includes(es[i].url, API_PATH) /\ es[i].url # apiUrl}

HoldsReadings(body) ==
  body.kind = "array" /\ \E i \in 1..Len(body.items) : KeepReading(MapReading(body.items[i]))

SomeTierHoldsReadings ==
  \/ HoldsReadings(ExactTier)
  \/ \E i \in FuzzyTierKeys : HoldsReadings(caches[CACHE_NAME].entries[i].body)
  \/ HoldsReadings(localStorage)

\* C7: a cycle that ends after a rejected login or a rejected feed request,
\* while some cache tier holds valid readings, publishes cached data: the
\* cached flag is set, data is non-empty and no error is shown.
C7_AuthFailureShowsCache ==
  [][\A c \in Cycles :
       (/\ cyc[c].br \in {"loginfail", "datafail"}
        /\ cyc'[c].pc = "idle"
        /\ SomeTierHoldsReadings)
         => (cached' /\ error' = "null" /\ data' # <<>>)]_vars

\* readCachedData() run to completion on the stores as they are now.
CacheOnlyResolution ==
  LET cs == CachesOpen(caches, CACHE_NAME)
      h == Handle(cs, CACHE_NAME)
      exact == CacheMatch(cs, h, apiUrl)
      key == FindIncludes(EntriesOf(cs, h), API_PATH)
      resp == IF exact # NoBody THEN exact
              ELSE IF key # <<>> THEN CacheMatch(cs, h, key) ELSE NoBody
  IN IF resp # NoBody /\ ~ParseThrows(resp) /\ ~NormalizeThrows(resp)
     THEN [tier |-> IF exact # NoBody THEN "exact" ELSE "fuzzy",
           data |-> normalizeReadings(resp)]
     ELSE [tier |-> "localStorage", data |-> LocalRead(FALSE).data]

\* C8: after a live cycle's write-through completed, and until the next
\* write to the store, a cache-only resolution returns the exact-key entry
\* and its data is the set the live cycle published.
C8_CacheOnlyAfterLive ==
  lastPut.valid =>
    /\ CacheOnlyResolution.tier = "exact"
    /\ CacheOnlyResolution.data = lastPut.set

\* caches.match(url): a lookup over every store of CacheStorage.
CachesMatch(cs, url) ==
  \E n \in StoreNames : cs[n].exists /\ CacheMatch(cs, Handle(cs, n), url) # NoBody

\* The keys that, when activation began, were held by stores outside the
\* keep list only.
OnlyInOldStores ==
  {url \in {apiUrl, apiUrlQuery, otherResourceUrl} :
     /\ \E n \in StoreNames \ KeepList :
          atActivate[n].exists /\ MatchIndex(atActivate[n].entries, url) # 0
     /\ \A n \in KeepList : MatchIndex(atActivate[n].entries, url) = 0}

C10_OneCacheVersion ==
  Activated =>
    /\ \A v \in Versions \ {swVersion} : ~caches[SensorCacheName(v)].exists
    /\ caches[CACHE_NAME].exists => CACHE_NAME = SENSOR_CACHE

\* The stores the activate handler has deleted so far.
Rotated == ToDelete(CachesKeys(atActivate)) \ act.todo

\* Some of the stores to be deleted are gone and some are still there.
MidRotation == act.pc = "deleting" /\ Rotated # {} /\ act.todo # {}

\* A cache read of readCachedData finds an entry in the App's store.
ReadFinds(c) ==
  /\ cyc[c].pc \in {"rc_match", "rc_keys"}
  /\ cyc'[c].pc \in {"rc_json", "rc_match2"}

\* C11: no cache read of the App finds an entry of a store that activation
\* is about to delete while other stores of the same rotation are already
\* gone: a reader sees the old stores all present or all deleted.
C11_NoReadMidRotation ==
  [][\A c \in Cycles : (ReadFinds(c) /\ CACHE_NAME \in act.todo) => ~MidRotation]_vars

\* The messages fetchData passes to setError.
ErrorMessages ==
  {"Offline - no cached data available", "Login failed",
   "Failed to fetch sensor data", "Unexpected error"}

\* C12: whatever fails in a poll cycle (login, network, status, JSON, cache
\* storage, localStorage), no fetchData call ends rejected, and the UI
\* state is data with a cached flag (cached data is never empty) or one
\* of the error messages.
C12_NoFailureEscapes ==
  /\ \A c \in Cycles : cyc[c].pc # "rejected"
  /\ error \in {"null"} \cup ErrorMessages
  /\ cached => data # <<>>

\* A cycle ended in the catch branch with nothing to show although the
\* store holds a valid sibling entry: after a login that succeeded the
\* feed request and then the cache read failed.
C12_Witness ==
  /\ cyc[1].pc = "idle"
  /\ error = "Unexpected error"
  /\ data = <<>>
  /\ jwtRef \in Tokens
  /\ localStorage = NoBody
  /\ caches[CACHE_NAME].entries = <<Entry(apiUrlQuery, ArrayBody(<<RA>>))>>

\* C13: the /api/data/ route handler answers every request: whatever the
\* network and CacheStorage do, it never rejects.
C13_RouteAlwaysResponds == rt.tier # "rejected"

C15_InstallTerminates == <>(inst.pc = "done")

\* C16: a poll cycle that awaits the login endpoint or the feed does not
\* stay pending: it eventually leaves the request (for the cache tiers or
\* the live publication) and ends.
C16_RequestsAreBounded ==
  \A c \in Cycles : [](cyc[c].pc \in {"login", "data"} => <>(cyc[c].pc = "idle"))

\* Where a cycle is while readCachedData runs.
ReadingCache == {"rc_open", "rc_match", "rc_keys", "rc_match2", "rc_json"}

\* C17: a cycle that begins while navigator.onLine is false enters the
\* cache read of the offline branch; from there it is never at a login or
\* feed request nor at the write-through, and when it ends it has
\* published cached data or the offline message.
C17_OfflineCycleSkipsNetwork ==
  [][\A c \in Cycles :
       /\ (cyc[c].pc = "idle" /\ cyc'[c].pc # "idle" /\ ~online)
            => (cyc'[c].pc = "rc_open" /\ cyc'[c].br = "offline")
       /\ cyc[c].br = "offline" => cyc'[c].pc \in ReadingCache \cup {"idle"}
       /\ (cyc[c].br = "offline" /\ cyc'[c].pc = "idle")
            => \/ cached' /\ error' = "null" /\ data' # <<>>
               \/ ~cached' /\ data' = <<>>
                    /\ error' = "Offline - no cached data available"]_vars

\* An offline cycle has found the sibling entry and awaits its body while
\* an earlier cycle, begun online, still awaits the feed.
C17_Witness ==
  /\ ~online
  /\ cyc[1].pc = "data"
  /\ cyc[2].br = "offline"
  /\ cyc[2].pc = "rc_json"

\* C18: a cycle that ends with an error message (no cache tier gave it a
\* non-empty set) leaves the displayed data empty and the cached flag false.
C18_ErrorMeansEmpty ==
  [][\A c \in Cycles :
       (cyc[c].pc \in ReadingCache /\ cyc'[c].pc = "idle" /\ error' # "null")
         => (data' = <<>> /\ ~cached')]_vars

\* C19: a cycle that begins online with a token held goes straight to the
\* feed request with that token; one without a token goes to the login
\* exchange.  A login answered with a non-ok status stores nothing and the
\* cycle turns to the cache without a feed request; a login that succeeds
\* stores the token, and the feed request carries the stored token.
C19_SessionAcquisition ==
  [][\A c \in Cycles :
       /\ (cyc[c].pc = "idle" /\ cyc'[c].pc # "idle" /\ online)
            => IF jwtRef \in Tokens
               THEN cyc'[c].pc = "data" /\ cyc'[c].tok = jwtRef /\ jwtRef' = jwtRef
               ELSE cyc'[c].pc = "login"
       /\ (cyc[c].pc = "login" /\ cyc'[c].br = "loginfail")
            => (jwtRef' = jwtRef /\ cyc'[c].pc = "rc_open")
       /\ cyc[c].br = "loginfail" => cyc'[c].pc \in ReadingCache \cup {"idle"}
       /\ (cyc[c].pc = "login" /\ cyc'[c].pc = "data")
            => (jwtRef' \notin {"null"} /\ cyc'[c].tok = jwtRef')]_vars

\* One cycle's login was rejected and it reads the cache, nothing stored by
\* it; another cycle's feed request carries the token that is held.
C19_Witness ==
  /\ cyc[1].br = "loginfail"
  /\ cyc[1].pc = "rc_match"
  /\ jwtRef = "t2"
  /\ cyc[2].pc = "data"
  /\ cyc[2].tok = "t2"

\* C20: the App presents a reading set as live (cached flag false, no
\* error) only if the response it got for its feed request in that cycle
\* is the feed server's own ok response, not an entry of the service
\* worker's cache or its synthetic payload.
C20_LiveOnlyFromServer ==
  [][\A c \in Cycles :
       (cyc[c].pc = "data" /\ cyc'[c].pc = "wt_open" /\ ~cached' /\ error' = "null")
         => rt.tier = "live"]_vars

\* The readings of the service worker's locally constructed payloads.
SyntheticReadings ==
  {installFallbackPayload.items[i] : i \in 1..Len(installFallbackPayload.items)}
    \cup {routeFallbackPayload(now).items[1] : now \in Clock}

IsSynthetic(body) ==
  /\ body.kind = "array"
  /\ body.items # <<>>
  /\ \A i \in 1..Len(body.items) : body.items[i] \in SyntheticReadings

\* A body with a valid reading that is not one of the synthetic ones.
HoldsRealReadings(body) ==
  /\ body.kind = "array"
  /\ \E i \in 1..Len(body.items) :
       KeepReading(MapReading(body.items[i])) /\ body.items[i] \notin SyntheticReadings

\* C21: a synthetic payload reaches the App's display only when none of the
\* App's tiers (the exact-key entry, a sibling entry, localStorage) holds
\* real readings.
C21_SyntheticIsLastResort ==
  [][\A c \in Cycles :
       (cyc[c].pc = "data" /\ cyc'[c].pc = "wt_open" /\ IsSynthetic(ArrayBody(data')))
         => ~(\/ HoldsRealReadings(ExactTier)
              \/ \E i \in FuzzyTierKeys : HoldsRealReadings(caches[CACHE_NAME].entries[i].body)
              \/ HoldsRealReadings(localStorage))]_vars

\* A reading whose three fields are non-null and whose timestamp parses.
ValidReading(r) ==
  /\ r.timestamp[1] \in {"iso", "ms"}
  /\ r.temperature # NullV
  /\ r.humidity # NullV

OnlyValidReadings(body) ==
  body.kind = "array" => \A i \in 1..Len(body.items) : ValidReading(body.items[i])

SensorStores == {SensorCacheName(v) : v \in Versions}

\* C22: the displayed set, every payload in a sensor-data store and the
\* value in localStorage hold only valid readings.
C22_OnlyValidReadings ==
  /\ \A i \in 1..Len(data) : ValidReading(data[i])
  /\ OnlyValidReadings(localStorage)
  /\ \A n \in SensorStores :
       caches[n].exists =>
         \A i \in 1..Len(caches[n].entries) : OnlyValidReadings(caches[n].entries[i].body)

\* C23: normalizeReadings returns one entry per valid entry of the input
\* array, in input order, and the empty set for an input that is no array.
C23_KeepsExactlyValid ==
  [][\A c \in Cycles :
       (At(c, "json") /\ cyc'[c].pc = "wt_open") =>
         LET in == cyc[c].resp
             valid == IF in.kind = "array" THEN SelectSeq(in.items, ValidReading) ELSE <<>>
             out == cyc'[c].norm
         IN /\ Len(out) = Len(valid)
            /\ \A j \in 1..Len(valid) : out[j].timestamp[2] = valid[j].timestamp[2]]_vars

ReadingBag(s) == [r \in {s[i] : i \in 1..Len(s)} |-> Cardinality({i \in 1..Len(s) : s[i] = r})]

Ascending(s) == \A i \in 1..(Len(s) - 1) : s[i].timestamp[2] <= s[i + 1].timestamp[2]

\* C27: the set handed to the chart holds the published readings in
\* ascending order of timestamp.
C27_ChartIsSorted ==
  /\ Ascending(sortedData)
  /\ ReadingBag(sortedData) = ReadingBag(data)

C27_Witness == Len(data) >= 2 /\ ~Ascending(data)

\* C24: a request answered without the network gets the tier and the
\* payload that the request before it for the same URL got without the
\* network (nothing is written to the store between the two).
C24_RepeatedResolutionAgrees ==
  [][(/\ rt.pc # "idle" /\ rt'.pc = "idle"
      /\ ~IsOk(rt.net)
      /\ rt.prev.tier \in {"exact", "fuzzy", "synthetic"}
      /\ rt.prev.url = rt.url)
       => (rt'.tier = rt.prev.tier /\ rt'.body = rt.prev.body)]_vars

\* Positions of the stored keys of the worker's store that contain /api/data/.
Holders ==
  {i \in 1..Len(caches[SENSOR_CACHE].entries) :
     Includes(caches[SENSOR_CACHE].entries[i].url, API_PATH)}

\* C25: a lookup that went past the exact tier answers with the entry of
\* the first stored key containing /api/data/, and finds nothing only when
\* no stored key contains it.
C25_FuzzyFindsFirst ==
  (rt.pc = "idle" /\ rt.tier \in {"fuzzy", "synthetic"}) =>
    IF Holders = {} THEN rt.tier = "synthetic"
    ELSE /\ rt.tier = "fuzzy"
         /\ \E i \in Holders :
              /\ \A j \in Holders : i <= j
              /\ rt.body = caches[SENSOR_CACHE].entries[i].body

\* Found under another base URL, ahead of a key with a query string.
C25_Witness ==
  /\ rt.pc = "idle"
  /\ rt.tier = "fuzzy"
  /\ Cardinality(Holders) >= 2
  /\ \A i \in Holders : caches[SENSOR_CACHE].entries[i].url # rt.url
  /\ \E i \in Holders : caches[SENSOR_CACHE].entries[i].url = apiUrlQuery

\* C26: activation does not change localStorage, and once rotation has
\* deleted the App's store an offline cycle that started with the last
\* live set on display ends with the same set on display.
C26_LocalStorageSurvivesRotation ==
  [][/\ (act.pc # act'.pc => localStorage' = localStorage)
     /\ \A c \in Cycles :
          (/\ cyc[c].br = "offline" /\ cyc[c].pc \in ReadingCache /\ cyc'[c].pc = "idle"
           /\ cyc[c].resp = NoBody
           /\ act.pc = "done" /\ caches[CACHE_NAME].entries = <<>>
           /\ ~IsMapped(caches, [name |-> CACHE_NAME, gen |-> 0])
           /\ ~cached /\ error = "null" /\ data # <<>>)
            => data' = data]_vars

\* C28: when a cycle that took the offline branch completes, no timer is
\* active and the timer reference is cleared.
C28_OfflineCycleStopsTimer ==
  [][\A c \in Cycles :
       (cyc[c].br = "offline" /\ cyc[c].pc \in ReadingCache /\ cyc'[c].pc = "idle")
         => (pollingRef' = NoTimer /\ timers' = {})]_vars

\* The start code created a timer and an offline cycle has since completed
\* and published, with the effect still mounted.
C28_Witness ==
  /\ mounted = "running"
  /\ timerSeq >= 1
  /\ pollingRef = NoTimer
  /\ \A c \in Cycles : At(c, "idle")
  /\ (cached \/ error = "Offline - no cached data available")

\* C29: a cycle whose feed request succeeded publishes the normalized set
\* as live, localStorage then holds its serialization unless setItem
\* failed, and the write-through puts the serialization under the primary
\* key; no step of the two writes changes what is published or ends the
\* cycle rejected.
C29_WriteThroughIsBestEffort ==
  [][\A c \in Cycles :
       /\ (cyc[c].pc = "data" /\ cyc'[c].pc \in {"wt_open", "rejected"})
            => /\ cyc'[c].pc = "wt_open"
               /\ data' = cyc'[c].norm /\ ~cached' /\ error' = "null"
               /\ localStorage' \in {localStorage, JSONstringify(data')}
       /\ (cyc[c].pc \in {"wt_open", "wt_put"} /\ cyc'[c] # cyc[c])
            => /\ cyc'[c].pc \in {"wt_put", "idle"}
               /\ UNCHANGED <<data, cached, error, localStorage>>
       /\ (cyc[c].pc = "wt_put" /\ caches' # caches)
            => CacheMatch(caches', Handle(caches', CACHE_NAME), apiUrl)
                 = JSONstringify(cyc[c].norm)]_vars

\* A live set is on display although neither write landed.
C29_Witness ==
  /\ \A c \in Cycles : At(c, "idle")
  /\ data # <<>> /\ ~cached /\ error = "null"
  /\ localStorage = NoBody
  /\ CacheMatch(caches, Handle(caches, CACHE_NAME), apiUrl) = NoBody

\* C30: while the sensor-data store holds an entry under the primary key,
\* no step of install issues a fetch or changes that entry.
C30_InstallKeepsExisting ==
  [][(/\ inst'.pc # inst.pc
      /\ CacheMatch(caches, SwHandle, installApiUrl) # NoBody)
       => /\ inst'.fetches = inst.fetches
          /\ CacheMatch(caches', SwHandle, installApiUrl)
               = CacheMatch(caches, SwHandle, installApiUrl)]_vars

\* The entries cycle c's Cache object reads, and among them the positions
\* of the exact key and of the keys containing /api/data/.
CycleEntries(c) == EntriesOf(caches, CycleHandle(c))
ExactAt(c) == {i \in 1..Len(CycleEntries(c)) : CycleEntries(c)[i].url = apiUrl}
SiblingsAt(c) == {i \in 1..Len(CycleEntries(c)) : Includes(CycleEntries(c)[i].url, API_PATH)}

\* What fetchData may publish when readCachedData ends in its localStorage
\* tier: the stored set, or nothing when getItem throws.
LocalOutcomes(c) ==
  {PublishCached(UI, cyc[c].br, LocalRead(FALSE)), PublishCached(UI, cyc[c].br, NoResult)}

\* C31: readCachedData goes on to the key scan only after the exact key
\* missed, takes an exact hit as its response, takes from the scan the
\* first key containing /api/data/, answers from a response it holds that
\* parses, and in every other case answers from localStorage.
C31_CacheOnlyTierOrder ==
  [][\A c \in Cycles :
       /\ (cyc[c].pc = "rc_match" /\ cyc'[c].pc = "rc_keys") => ExactAt(c) = {}
       /\ (cyc[c].pc = "rc_match" /\ cyc'[c].pc = "rc_json")
            => \E i \in ExactAt(c) : cyc'[c].resp = CycleEntries(c)[i].body
       /\ (cyc[c].pc = "rc_keys" /\ cyc'[c].pc = "rc_match2")
            => \E i \in SiblingsAt(c) :
                 /\ \A j \in SiblingsAt(c) : i <= j
                 /\ cyc'[c].key = CycleEntries(c)[i].url
       /\ (cyc[c].pc = "rc_json" /\ cyc'[c].pc = "idle"
             /\ ~ParseThrows(cyc[c].resp) /\ ~NormalizeThrows(cyc[c].resp))
            => UI' = PublishCached(UI, cyc[c].br, Result(normalizeReadings(cyc[c].resp)))
       /\ (cyc[c].pc \in {"rc_open", "rc_match", "rc_keys", "rc_match2"}
             /\ cyc'[c].pc = "idle")
            => UI' \in LocalOutcomes(c)]_vars

\* A cycle showed the set of localStorage as cached data while the store
\* holds no key containing /api/data/.
C31_Witness ==
  /\ \A c \in Cycles : At(c, "idle")
  /\ cached
  /\ localStorage # NoBody
  /\ data = normalizeReadings(localStorage)
  /\ caches[CACHE_NAME].exists
  /\ \A i \in 1..Len(caches[CACHE_NAME].entries) :
       ~Includes(caches[CACHE_NAME].entries[i].url, API_PATH)

\* C32: no step of the activation handler changes a store of the active
\* version: its existence, its entries and their order stay as they were.
C32_ActivationKeepsOwnStores ==
  [][(act'.pc # act.pc \/ act'.todo # act.todo)
       => \A n \in KeepList : caches'[n] = caches[n]]_vars

\* Activation completed over the three stores of the active version and
\* stores of earlier versions; the three are as they were when it began.
C32_Witness ==
  /\ Activated
  /\ \A n \in KeepList : atActivate[n].exists /\ atActivate[n].entries # <<>>
  /\ \E n \in StoreNames \ KeepList : atActivate[n].exists
  /\ \A n \in KeepList : caches[n] = atActivate[n]

\* C33: with the App mounted, every cycle completed and a live set on
\* display, localStorage and the exact-key entry of the store hold that
\* same set.
C33_TiersAgreeAfterOverlap ==
  (/\ mounted = "running"
   /\ \A c \in Cycles : At(c, "idle")
   /\ ~cached /\ error = "null" /\ data # <<>>)
    => /\ localStorage.kind = "array"
       /\ normalizeReadings(localStorage) = data
       /\ ExactTier.kind = "array"
       /\ normalizeReadings(ExactTier) = data

\* C34: localStorage never holds a payload the service worker synthesized
\* (the install fallback series or the route's last-resort reading).
C34_NoSyntheticInLocalStorage == ~IsSynthetic(localStorage)

\* C35: between poll cycles, a true cached flag comes with a non-empty
\* displayed set and no error message.
C35_CachedFlagConsistent ==
  ((\A c \in Cycles : At(c, "idle")) /\ cached) => (data # <<>> /\ error = "null")

\* C36: a step of a poll cycle other than the handling of an ok feed
\* response and the write-through that follows it leaves the entries of
\* the App's store and the value of localStorage as they were.
C36_OnlyLiveCyclesWrite ==
  [][\A c \in Cycles :
       (/\ cyc'[c] # cyc[c]
        /\ cyc[c].pc \notin {"wt_open", "wt_put"}
        /\ cyc'[c].pc # "wt_open")
         => /\ caches'[CACHE_NAME].entries = caches[CACHE_NAME].entries
            /\ localStorage' = localStorage]_vars

\* A cycle without an ok feed response has shown cached data, and the
\* exact-key entry and localStorage still hold what a live cycle wrote.
C36_Witness ==
  /\ \A c \in Cycles : At(c, "idle")
  /\ cached
  /\ lastPut.valid
  /\ ExactTier = JSONstringify(lastPut.set)
  /\ localStorage = JSONstringify(lastPut.set)

\* C37: at most one cycle awaits the login endpoint at a time.
C37_OneLoginInFlight == Cardinality({c \in Cycles : At(c, "login")}) <= 1

\* C38: a cycle that awaits the feed sent its request with a token that a
\* login answered ok returned.
C38_RequestsCarryToken == \A c \in Cycles : At(c, "data") => cyc[c].tok \in Tokens

====
